---------------------------- MODULE Spec2Model ----------------------------
(***************************************************************************)
(* State-machine model of the VDA IR control firmware (firmware/src/       *)
(* main.cpp): the port table and its persistence, the IR sender and        *)
(* receiver bindings, the learning handlers, the serial bridge and the     *)
(* cooperative loop() that serves one HTTP request, polls the decoder and  *)
(* updates the LED.                                                        *)
(*                                                                         *)
(* A pointer is modelled as a sequence: <<>> is nullptr, <<obj>> points to *)
(* obj.  Heap objects are counted (senderObjs, recvObjs) so that a missed  *)
(* delete shows as a second live object.                                   *)
(***************************************************************************)
EXTENDS Integers, Sequences, FiniteSets, TLC

VARIABLES
  variant,            \* build: "ethernet" (USE_ETHERNET) or "wifi" (USE_WIFI)
  serverUp,           \* setupWebServer() ran: HTTP requests are served
  ports,              \* ports[0..portCount-1], as a sequence of PortConfig
  irSenders,          \* irSenders[MAX_PORTS]: pointer per port index
  senderObjs,         \* live IRsend objects on the heap, per port index
  irReceiver,         \* irReceiver pointer (the IRrecv object and its capture state)
  recvObjs,           \* live IRrecv objects on the heap
  activeReceiverPort, \* activeReceiverPort, -1 when none
  boardId, boardName, adopted,
  prefs,              \* the Preferences namespace "vda-ir" (persisted store)
  pc,                 \* position in loop(): "client", "poll", "led"
  httpOut,            \* the HTTP response sent in this loop iteration
  irOut,              \* IR frames transmitted in this loop iteration
  logOut,             \* IR signal printed by loop()'s poll in this iteration
  serialBridgeEnabled, serialBridgeRxPin, serialBridgeTxPin, serialBridgeBaud,
  serialBridgeBuffer, \* the String serialBridgeBuffer, as a sequence of bytes
  uartOpen,           \* UART1 channels begun and not ended
  uartRx,             \* bytes received by UART1 and not yet read
  uartTx              \* bytes written to UART1 in this loop iteration

vars == <<variant, serverUp, ports, irSenders, senderObjs, irReceiver, recvObjs,
          activeReceiverPort, boardId, boardName, adopted, prefs, pc,
          httpOut, irOut, logOut, serialBridgeEnabled, serialBridgeRxPin,
          serialBridgeTxPin, serialBridgeBaud, serialBridgeBuffer, uartOpen,
          uartRx, uartTx>>

serialVars == <<serialBridgeEnabled, serialBridgeRxPin, serialBridgeTxPin,
                serialBridgeBaud, serialBridgeBuffer, uartOpen, uartRx>>

----------------------------------------------------------------------------
(* Bounds of the model *)

\* IR signals carry a value in 1..MaxSig
MaxSig == 1
\* labels a request may give: none, or one of the first MaxNames of LabelPool
MaxNames == 1
\* IR codes a send request may carry: 0..MaxCode
MaxCode == 1

LabelPool == <<"TV", "Amp", "Box">>
\* "" is an absent "name" field
ReqNames == {""} \cup {LabelPool[i] : i \in 1..MaxNames}
\* gpios a request may name: an output-capable pin of both boards, an
\* input-only pin, and a pin that is in no port table
ReqGpios == {4, 34, 99}
\* roles a request may give; "" is an absent "mode" field
ReqModes == {"disabled", "ir_output", "ir_input", ""}
ReqProtocols == {"nec", "pioneer", "bogus"}
\* the "protocol" field of a send request: absent, empty, wrong case, or a name
ReqProtocolFields == {<<>>, <<"">>, <<"NEC">>} \cup {<<p>> : p \in ReqProtocols}
SigValues == 1..MaxSig
CodeValues == 0..MaxCode

----------------------------------------------------------------------------
(* Program constants *)

Variants == {"ethernet", "wifi"}

OUTPUT_CAPABLE_PINS(v) ==
  IF v = "ethernet" THEN <<0, 1, 2, 3, 4, 5, 13, 14, 15, 16, 32, 33>>
  ELSE <<4, 5, 12, 13, 14, 15, 16, 17, 18, 19, 21, 22, 23, 25, 26, 27, 32, 33>>

INPUT_ONLY_PINS == <<34, 35, 36, 39>>

MAX_PORTS(v) == IF v = "ethernet" THEN 16 ELSE 22

nullptr == <<>>

Min(a, b) == IF a < b THEN a ELSE b

portCount == Len(ports)

\* a scan that starts one element late
IsInputOnly_SkipFirst(gpio) ==
  \E j \in 2..Len(INPUT_ONLY_PINS) : INPUT_ONLY_PINS[j] = gpio

\* a pin test that finds no pin input-only
IsInputOnly_Never(gpio) == FALSE

\* isInputOnly: the scan of INPUT_ONLY_PINS for a gpio
IsInputOnly(gpio) == \E j \in 1..Len(INPUT_ONLY_PINS) : INPUT_ONLY_PINS[j] = gpio

\* portIndex initialised to the first index instead of "not found"
FindPort_DefaultFirst(table, gpio) ==
  IF \E i \in 1..Len(table) : table[i].gpio = gpio
  THEN CHOOSE i \in 1..Len(table) :
         /\ table[i].gpio = gpio
         /\ \A k \in 1..(i-1) : table[k].gpio # gpio
  ELSE 1

\* "Find port by GPIO": the first index whose gpio matches, 0 when none
\* (the code's -1; indices are 1-based here)
FindPort(table, gpio) ==
  IF \E i \in 1..Len(table) : table[i].gpio = gpio
  THEN CHOOSE i \in 1..Len(table) :
         /\ table[i].gpio = gpio
         /\ \A k \in 1..(i-1) : table[k].gpio # gpio
  ELSE 0


----------------------------------------------------------------------------
(* Persisted store: Preferences namespace "vda-ir".  A key that was never   *)
(* written is absent (<<>>) and reads as the default the caller gives.      *)

EmptyPrefs == [boardId |-> <<>>, boardName |-> <<>>, adopted |-> <<>>,
               portCount |-> <<>>, portKeys |-> <<>>]

\* preferences.getX(key, default)
PrefGet(opt, default) == IF opt = <<>> THEN default ELSE opt[1]

\* "vda-ir-" + String((uint32_t)ESP.getEfuseMac(), HEX)
DefaultBoardId == "vda-ir-efusemac"

\* first boot: all known pins, output-capable first, role disabled
DefaultPorts(v) ==
  LET all == OUTPUT_CAPABLE_PINS(v) \o INPUT_ONLY_PINS
  IN  [i \in 1..Min(Len(all), MAX_PORTS(v)) |->
         [gpio |-> all[i], mode |-> "disabled", name |-> ""]]

\* the port<i>_gpio / _mode / _name keys of index i (1-based), with defaults
LoadPort(p, i) ==
  IF i <= Len(p.portKeys) THEN p.portKeys[i]
  ELSE [gpio |-> 0, mode |-> "disabled", name |-> ""]

\* loadConfig(): what it leaves in boardId, boardName, adopted, ports
loadConfig(p, v) ==
  LET id    == PrefGet(p.boardId, "")
      count == PrefGet(p.portCount, 0)
  IN  [boardId   |-> IF id = "" THEN DefaultBoardId ELSE id,
       boardName |-> PrefGet(p.boardName, "VDA IR Controller"),
       adopted   |-> PrefGet(p.adopted, FALSE),
       ports     |-> IF count = 0 THEN DefaultPorts(v)
                     ELSE [i \in 1..Min(count, MAX_PORTS(v)) |-> LoadPort(p, i)]]

\* a save that writes identity and portCount but leaves the mode keys alone
saveConfig_NoMode(m, p) ==
  [boardId   |-> <<m.boardId>>,
   boardName |-> <<m.boardName>>,
   adopted   |-> <<m.adopted>>,
   portCount |-> <<Len(m.ports)>>,
   portKeys  |-> [i \in 1..(IF Len(p.portKeys) > Len(m.ports)
                            THEN Len(p.portKeys) ELSE Len(m.ports)) |->
                    IF i <= Len(m.ports)
                    THEN [m.ports[i] EXCEPT !.mode =
                            IF i <= Len(p.portKeys) THEN p.portKeys[i].mode
                            ELSE "disabled"]
                    ELSE p.portKeys[i]]]

\* saveConfig(): the store after writing identity, portCount and every port
saveConfig(m, p) ==
  [boardId   |-> <<m.boardId>>,
   boardName |-> <<m.boardName>>,
   adopted   |-> <<m.adopted>>,
   portCount |-> <<Len(m.ports)>>,
   portKeys  |-> [i \in 1..(IF Len(p.portKeys) > Len(m.ports)
                            THEN Len(p.portKeys) ELSE Len(m.ports)) |->
                    IF i <= Len(m.ports) THEN m.ports[i] ELSE p.portKeys[i]]]

----------------------------------------------------------------------------
(* RAM as one record, so that handler bodies compose sequentially *)

Mem == [ports |-> ports, irSenders |-> irSenders, senderObjs |-> senderObjs,
        irReceiver |-> irReceiver, recvObjs |-> recvObjs,
        activeReceiverPort |-> activeReceiverPort,
        boardId |-> boardId, boardName |-> boardName, adopted |-> adopted]

\* globals after reset, before setup(): no ports, null pointers
ResetMem(v) ==
  [ports |-> <<>>,
   irSenders |-> [i \in 1..MAX_PORTS(v) |-> nullptr],
   senderObjs |-> [i \in 1..MAX_PORTS(v) |-> 0],
   irReceiver |-> nullptr, recvObjs |-> 0, activeReceiverPort |-> -1,
   boardId |-> "", boardName |-> "VDA IR Controller", adopted |-> FALSE]

\* new IRsend(gpio); begin()
NewIRsend(gpio) == [gpio |-> gpio]

\* new IRrecv(gpio); enableIRIn(): interrupt attached, capture state reset
NewIRrecv(gpio) ==
  [gpio |-> gpio, enabled |-> TRUE, rcvstate |-> "idle", raw |-> <<>>,
   decoded |-> FALSE]

\* IRrecv::disableIRIn(): interrupt and timer detached
disableIRIn(r) == [r EXCEPT !.enabled = FALSE]

\* IRrecv::decode(): true iff a capture has completed (rcvstate is stop)
decode(r) == r.rcvstate = "stop"

\* the object after a successful decode: results filled, capture still held
Decoded(r) == [r EXCEPT !.decoded = TRUE]

\* IRrecv::resume(): re-arm for the next signal
resume(r) == [r EXCEPT !.rcvstate = "idle", !.raw = <<>>, !.decoded = FALSE]

\* a rebind that forgets to delete the old sender
initIRSender_NoDelete(m, portIndex) ==
  [m EXCEPT !.irSenders[portIndex] = <<NewIRsend(m.ports[portIndex].gpio)>>,
            !.senderObjs[portIndex] = @ + 1]

initIRSender(m, portIndex) ==
  LET freed == IF m.irSenders[portIndex] # nullptr
               THEN [m EXCEPT !.senderObjs[portIndex] = @ - 1]
               ELSE m
  IN  [freed EXCEPT !.irSenders[portIndex] = <<NewIRsend(m.ports[portIndex].gpio)>>,
                    !.senderObjs[portIndex] = @ + 1]

\* a restart of the receiver that forgets to delete the old one
initIRReceiver_NoDelete(m, gpio) ==
  [m EXCEPT !.irReceiver = <<NewIRrecv(gpio)>>,
            !.recvObjs = @ + 1,
            !.activeReceiverPort = gpio]

\* a restart of the receiver that keeps the capture state of the old one
initIRReceiver_KeepCapture(m, gpio) ==
  LET freed == IF m.irReceiver # nullptr
               THEN [m EXCEPT !.recvObjs = @ - 1]
               ELSE m
      fresh == IF m.irReceiver # nullptr
               THEN [NewIRrecv(gpio) EXCEPT !.rcvstate = m.irReceiver[1].rcvstate,
                                            !.raw = m.irReceiver[1].raw]
               ELSE NewIRrecv(gpio)
  IN  [freed EXCEPT !.irReceiver = <<fresh>>,
                    !.recvObjs = @ + 1,
                    !.activeReceiverPort = gpio]

initIRReceiver(m, gpio) ==
  LET freed == IF m.irReceiver # nullptr
               THEN [m EXCEPT !.recvObjs = @ - 1]
               ELSE m
  IN  [freed EXCEPT !.irReceiver = <<NewIRrecv(gpio)>>,
                    !.recvObjs = @ + 1,
                    !.activeReceiverPort = gpio]

\* initPorts(): the loop body for index i, then the rest of the table
RECURSIVE initPortsFrom(_, _)
initPortsFrom(m, i) ==
  IF i > Len(m.ports) THEN m
  ELSE initPortsFrom(
         IF m.ports[i].mode = "ir_output" THEN initIRSender(m, i)
         ELSE IF m.ports[i].mode = "ir_input" THEN initIRReceiver(m, m.ports[i].gpio)
         ELSE m,
         i + 1)

\* an initPorts whose receiver ends on the first ir_input port of the table
initPorts_FirstInput(m) ==
  LET done   == initPortsFrom(m, 1)
      inputs == {i \in 1..Len(m.ports) : m.ports[i].mode = "ir_input"}
      first  == CHOOSE i \in inputs : \A k \in inputs : i <= k
  IN  IF inputs = {} THEN done
      ELSE [done EXCEPT !.irReceiver = <<NewIRrecv(m.ports[first].gpio)>>,
                        !.activeReceiverPort = m.ports[first].gpio]

initPorts(m) == initPortsFrom(m, 1)

\* setup(): loadConfig, then the branch on networkConnected after the wait
setup(p, v, net) ==
  LET cfg    == loadConfig(p, v)
      loaded == [ResetMem(v) EXCEPT !.ports = cfg.ports, !.boardId = cfg.boardId,
                                    !.boardName = cfg.boardName,
                                    !.adopted = cfg.adopted]
  IN  [mem      |-> IF net THEN initPorts(loaded) ELSE loaded,
       serverUp |-> net \/ v = "wifi"]

\* assign RAM from a memory record
Store(m) ==
  /\ ports' = m.ports
  /\ irSenders' = m.irSenders
  /\ senderObjs' = m.senderObjs
  /\ irReceiver' = m.irReceiver
  /\ recvObjs' = m.recvObjs
  /\ activeReceiverPort' = m.activeReceiverPort
  /\ boardId' = m.boardId
  /\ boardName' = m.boardName
  /\ adopted' = m.adopted

ramVars == <<ports, irSenders, senderObjs, irReceiver, recvObjs,
             activeReceiverPort, boardId, boardName, adopted>>

----------------------------------------------------------------------------
(* Outputs of one loop iteration *)

NoHttp == [op |-> "none", code |-> 0, error |-> "", port |-> -1, mode |-> "",
           name |-> "", active |-> FALSE, received |-> <<>>, body |-> <<>>,
           text |-> <<>>, elapsed |-> 0, serial |-> <<>>]

HttpError(op, msg) == [NoHttp EXCEPT !.op = op, !.code = 400, !.error = msg]

HttpOk(op) == [NoHttp EXCEPT !.op = op, !.code = 200]

\* the serial bridge state as one record
SerialMem ==
  [enabled |-> serialBridgeEnabled, rxPin |-> serialBridgeRxPin,
   txPin |-> serialBridgeTxPin, baud |-> serialBridgeBaud,
   buffer |-> serialBridgeBuffer, open |-> uartOpen, rx |-> uartRx]

\* assign the serial bridge state from a record
StoreSerial(b) ==
  /\ serialBridgeEnabled' = b.enabled
  /\ serialBridgeRxPin' = b.rxPin
  /\ serialBridgeTxPin' = b.txPin
  /\ serialBridgeBaud' = b.baud
  /\ serialBridgeBuffer' = b.buffer
  /\ uartOpen' = b.open
  /\ uartRx' = b.rx

\* the serial bridge globals after reset: unconfigured, UART1 not begun
SerialReset ==
  [enabled |-> FALSE, rxPin |-> -1, txPin |-> -1, baud |-> 115200,
   buffer |-> <<>>, open |-> 0, rx |-> <<>>]

Init ==
  /\ variant \in Variants
  /\ prefs = EmptyPrefs
  /\ \E net \in BOOLEAN :
       LET s == setup(EmptyPrefs, variant, net)
       IN  /\ serverUp = s.serverUp
           /\ ports = s.mem.ports
           /\ irSenders = s.mem.irSenders
           /\ senderObjs = s.mem.senderObjs
           /\ irReceiver = s.mem.irReceiver
           /\ recvObjs = s.mem.recvObjs
           /\ activeReceiverPort = s.mem.activeReceiverPort
           /\ boardId = s.mem.boardId
           /\ boardName = s.mem.boardName
           /\ adopted = s.mem.adopted
  /\ pc = "client"
  /\ httpOut = NoHttp
  /\ irOut = <<>>
  /\ logOut = <<>>
  /\ serialBridgeEnabled = SerialReset.enabled
  /\ serialBridgeRxPin = SerialReset.rxPin
  /\ serialBridgeTxPin = SerialReset.txPin
  /\ serialBridgeBaud = SerialReset.baud
  /\ serialBridgeBuffer = SerialReset.buffer
  /\ uartOpen = SerialReset.open
  /\ uartRx = SerialReset.rx
  /\ uartTx = <<>>

\* power cycle or reset: RAM is lost, the store is kept, setup() runs again
Restart ==
  /\ \E net \in BOOLEAN :
       LET s == setup(prefs, variant, net)
       IN  /\ Store(s.mem)
           /\ serverUp' = s.serverUp
  /\ pc' = "client"
  /\ httpOut' = NoHttp
  /\ irOut' = <<>>
  /\ logOut' = <<>>
  /\ StoreSerial(SerialReset)
  /\ uartTx' = <<>>
  /\ UNCHANGED <<variant, prefs>>

----------------------------------------------------------------------------
(* HTTP handlers.  server.handleClient() runs at most one of them per loop  *)
(* iteration, to completion.                                                *)

\* a handler return after which handleClient serves the next request at once
Respond_Again(r) ==
  /\ httpOut' = r
  /\ pc' = "client"

Respond(r) ==
  /\ httpOut' = r
  /\ pc' = "poll"

\* a snapshot that reports every pin as output-capable
PortSnapshot_AllOutput(p) ==
  [port |-> p.gpio, gpio |-> p.gpio, mode |-> p.mode, name |-> p.name,
   can_input |-> TRUE, can_output |-> TRUE]

\* GET /ports: one snapshot per port, in table order
PortSnapshot(p) ==
  [port |-> p.gpio, gpio |-> p.gpio, mode |-> p.mode, name |-> p.name,
   can_input |-> TRUE, can_output |-> ~IsInputOnly(p.gpio)]

ListPorts(table) == [i \in 1..Len(table) |-> PortSnapshot(table[i])]

handlePorts ==
  /\ pc = "client" /\ serverUp
  /\ Respond([HttpOk("listPorts") EXCEPT !.body = ListPorts(ports)])
  /\ irOut' = <<>>
  /\ UNCHANGED <<variant, serverUp, serialVars, uartTx, ramVars, prefs, logOut>>

\* the "Reinitialize port" step of handleConfigurePort
Reinitialize(m, portIndex, gpio, mode) ==
  IF mode = "ir_output" THEN initIRSender(m, portIndex)
  ELSE IF mode = "ir_input" THEN initIRReceiver(m, gpio)
  ELSE m

\* a configure that writes the label into every port of the table
ConfigureEffect_Relabel(m, p, portIndex, gpio, mode, name) ==
  LET updated == [m EXCEPT !.ports =
                    [i \in 1..Len(m.ports) |->
                       [m.ports[i] EXCEPT !.name = name,
                                          !.mode = IF i = portIndex THEN mode ELSE @]]]
      bound   == Reinitialize(updated, portIndex, gpio, mode)
  IN  [mem |-> bound, prefs |-> saveConfig(bound, p)]

\* RAM and store after the successful path of handleConfigurePort
ConfigureEffect(m, p, portIndex, gpio, mode, name) ==
  LET updated == [m EXCEPT !.ports[portIndex].mode = mode,
                           !.ports[portIndex].name = name]
      bound   == Reinitialize(updated, portIndex, gpio, mode)
  IN  [mem |-> bound, prefs |-> saveConfig(bound, p)]

\* body: "json" (parsed), "none" (no body), "invalid" (deserialization error)
handleConfigurePort(body, gpio, mode, name) ==
  /\ pc = "client" /\ serverUp
  /\ irOut' = <<>>
  /\ UNCHANGED <<variant, serverUp, serialVars, uartTx, logOut>>
  /\ LET portIndex == FindPort(ports, gpio)
     IN  IF body = "none" THEN
           /\ Respond(HttpError("configurePort", "No body"))
           /\ UNCHANGED <<ramVars, prefs>>
         ELSE IF body = "invalid" THEN
           /\ Respond(HttpError("configurePort", "Invalid JSON"))
           /\ UNCHANGED <<ramVars, prefs>>
         ELSE IF portIndex = 0 THEN
           /\ Respond(HttpError("configurePort", "Invalid GPIO"))
           /\ UNCHANGED <<ramVars, prefs>>
         ELSE IF mode = "ir_output" /\ IsInputOnly(gpio) THEN
           /\ Respond(HttpError("configurePort", "GPIO is input-only"))
           /\ UNCHANGED <<ramVars, prefs>>
         ELSE
           LET e == ConfigureEffect(Mem, prefs, portIndex, gpio, mode, name)
           IN  /\ Store(e.mem)
               /\ prefs' = e.prefs
               /\ Respond([HttpOk("configurePort") EXCEPT
                             !.port = gpio, !.mode = mode, !.name = name])

\* doc["protocol"] | "nec": an absent field reads as "nec"
ProtocolField(f) == IF f = <<>> THEN "nec" ELSE f[1]

\* a dispatch whose default branch calls the Sony encoder
EncoderCall_DefaultSony(protocol, codeValue) ==
  LET call(fn) == [fn |-> fn, data |-> codeValue, address |-> -1, timing |-> <<>>]
  IN  IF protocol = "nec" THEN call("sendNEC")
      ELSE IF protocol = "pioneer" THEN call("sendGeneric")
      ELSE call("sendSony")

\* a dispatch that sends pioneer with a 38 kHz carrier
EncoderCall_Pioneer38(protocol, codeValue) ==
  LET call(fn) == [fn |-> fn, data |-> codeValue, address |-> -1, timing |-> <<>>]
  IN  IF protocol = "pioneer" THEN
        [call("sendGeneric") EXCEPT !.timing =
           [headermark |-> 8506, headerspace |-> 4191,
            onemark |-> 568, onespace |-> 1542,
            zeromark |-> 568, zerospace |-> 487,
            footermark |-> 568, gap |-> 25181,
            mesgtime |-> 84906, nbits |-> 32, frequency |-> 38,
            MSBfirst |-> TRUE, repeat |-> 0, dutycycle |-> 33]]
      ELSE call("sendNEC")

\* the encoder call handleSendIR makes for a protocol name
EncoderCall(protocol, codeValue) ==
  LET call(fn) == [fn |-> fn, data |-> codeValue, address |-> -1, timing |-> <<>>]
  IN  IF protocol = "nec" THEN call("sendNEC")
      ELSE IF protocol = "samsung" THEN call("sendSAMSUNG")
      ELSE IF protocol = "sony" THEN call("sendSony")
      ELSE IF protocol = "rc5" THEN call("sendRC5")
      ELSE IF protocol = "rc6" THEN call("sendRC6")
      ELSE IF protocol = "lg" THEN call("sendLG")
      ELSE IF protocol = "panasonic" THEN
        [call("sendPanasonic") EXCEPT !.address = 16388]
      ELSE IF protocol = "pioneer" THEN
        [call("sendGeneric") EXCEPT !.timing =
           [headermark |-> 8506, headerspace |-> 4191,
            onemark |-> 568, onespace |-> 1542,
            zeromark |-> 568, zerospace |-> 487,
            footermark |-> 568, gap |-> 25181,
            mesgtime |-> 84906, nbits |-> 32, frequency |-> 40,
            MSBfirst |-> TRUE, repeat |-> 0, dutycycle |-> 33]]
      ELSE call("sendNEC")

\* a lookup by gpio alone, without the role test
FindOutputPort_AnyRole(table, output) ==
  IF \E i \in 1..Len(table) : table[i].gpio = output
  THEN CHOOSE i \in 1..Len(table) :
         /\ table[i].gpio = output
         /\ \A k \in 1..(i-1) : table[k].gpio # output
  ELSE 0

\* "Find port index": first port with that gpio and mode ir_output, 0 when none
FindOutputPort(table, output) ==
  IF \E i \in 1..Len(table) : table[i].gpio = output /\ table[i].mode = "ir_output"
  THEN CHOOSE i \in 1..Len(table) :
         /\ table[i].gpio = output /\ table[i].mode = "ir_output"
         /\ \A k \in 1..(i-1) : ~(table[k].gpio = output /\ table[k].mode = "ir_output")
  ELSE 0

\* the frames handleSendIR puts on the wire: none on the error path
SendFrames(table, senders, output, protocol, codeValue) ==
  LET portIndex == FindOutputPort(table, output)
  IN  IF portIndex = 0 \/ senders[portIndex] = nullptr THEN <<>>
      ELSE <<[gpio |-> senders[portIndex][1].gpio,
              call |-> EncoderCall(protocol, codeValue)]>>

handleSendIR(hasBody, output, protocol, codeValue) ==
  /\ pc = "client" /\ serverUp
  /\ UNCHANGED <<variant, serverUp, serialVars, uartTx, ramVars, prefs, logOut>>
  /\ LET portIndex == FindOutputPort(ports, output)
     IN  IF ~hasBody THEN
           /\ Respond(HttpError("sendIr", "No body"))
           /\ irOut' = <<>>
         ELSE IF portIndex = 0 \/ irSenders[portIndex] = nullptr THEN
           /\ Respond(HttpError("sendIr", "Invalid output or not configured"))
           /\ irOut' = <<>>
         ELSE
           /\ irOut' = SendFrames(ports, irSenders, output, protocol, codeValue)
           /\ Respond(HttpOk("sendIr"))

\* "duration_ms" of a test request
ReqDurations == {-1, 0, 50, 500}
\* "board_id" and "board_name" of an adopt request; "" is also the absent field
ReqBoardIds == {"", "hub-1"}
ReqBoardNames == {"", "Den"}

\* time the test loop holds the pin: `cycles` rounds of 13 us high, 13 us low
BurstMicros(cycles) == cycles * (13 + 13)

\* a test loop that tests its bound after the round (do ... while)
TestBurst_DoWhile(output, duration) ==
  [gpio |-> output,
   call |-> [fn |-> "carrierBurst", data |-> IF duration > 1 THEN duration ELSE 1,
             address |-> -1, timing |-> <<>>]]

\* the test pattern handleTestOutput puts on the pin: its for loop runs
\* `duration` rounds
TestBurst(output, duration) ==
  [gpio |-> output,
   call |-> [fn |-> "carrierBurst", data |-> IF duration > 0 THEN duration ELSE 0,
             address |-> -1, timing |-> <<>>]]

\* handleTestOutput: the port is looked up by gpio alone, then the pin is
\* made an output and pulsed; elapsed is the time in the loop, in whole ms
handleTestOutput(hasBody, output, duration) ==
  /\ pc = "client" /\ serverUp
  /\ UNCHANGED <<variant, serverUp, serialVars, uartTx, ramVars, prefs, logOut>>
  /\ IF ~hasBody THEN
       /\ Respond(HttpError("testOutput", "No body"))
       /\ irOut' = <<>>
     ELSE IF FindPort(ports, output) = 0 THEN
       /\ Respond(HttpError("testOutput", "Invalid output"))
       /\ irOut' = <<>>
     ELSE
       /\ irOut' = <<TestBurst(output, duration)>>
       /\ Respond([HttpOk("testOutput") EXCEPT
                     !.elapsed = BurstMicros(TestBurst(output, duration).call.data)
                                 \div 1000])

\* an adopt that changes RAM and does not write the store
AdoptEffect_NoSave(m, p, newBoardId, newBoardName) ==
  [mem   |-> [m EXCEPT !.boardId = newBoardId,
                       !.boardName = IF newBoardName # "" THEN newBoardName
                                     ELSE newBoardId,
                       !.adopted = TRUE],
   prefs |-> p]

\* RAM and store after the successful path of handleAdopt
AdoptEffect(m, p, newBoardId, newBoardName) ==
  LET named == [m EXCEPT !.boardId = newBoardId,
                         !.boardName = IF newBoardName # "" THEN newBoardName
                                       ELSE newBoardId,
                         !.adopted = TRUE]
  IN  [mem |-> named, prefs |-> saveConfig(named, p)]

handleAdopt(hasBody, newBoardId, newBoardName) ==
  /\ pc = "client" /\ serverUp
  /\ irOut' = <<>>
  /\ UNCHANGED <<variant, serverUp, serialVars, uartTx, logOut>>
  /\ IF ~hasBody THEN
       /\ Respond(HttpError("adopt", "No body"))
       /\ UNCHANGED <<ramVars, prefs>>
     ELSE IF newBoardId = "" THEN
       /\ Respond(HttpError("adopt", "board_id required"))
       /\ UNCHANGED <<ramVars, prefs>>
     ELSE
       LET e == AdoptEffect(Mem, prefs, newBoardId, newBoardName)
       IN  /\ Store(e.mem)
           /\ prefs' = e.prefs
           /\ Respond([HttpOk("adopt") EXCEPT
                         !.body = <<[board_id |-> e.mem.boardId]>>])

handleLearningStart(hasBody, port) ==
  /\ pc = "client" /\ serverUp
  /\ irOut' = <<>>
  /\ UNCHANGED <<variant, serverUp, serialVars, uartTx, prefs, logOut>>
  /\ IF ~hasBody THEN
       /\ Respond(HttpError("learningStart", "No body"))
       /\ UNCHANGED ramVars
     ELSE
       /\ Store(initIRReceiver(Mem, port))
       /\ Respond([HttpOk("learningStart") EXCEPT !.port = port])

\* RAM after the body of handleLearningStop
LearningStopEffect(m) ==
  [m EXCEPT !.irReceiver = IF m.irReceiver # nullptr
                           THEN <<disableIRIn(m.irReceiver[1])>>
                           ELSE m.irReceiver,
            !.activeReceiverPort = -1]

handleLearningStop ==
  /\ pc = "client" /\ serverUp
  /\ Store(LearningStopEffect(Mem))
  /\ Respond(HttpOk("learningStop"))
  /\ irOut' = <<>>
  /\ UNCHANGED <<variant, serverUp, serialVars, uartTx, prefs, logOut>>

\* a report path that returns without resume()
StatusPoll_NoResume(recv) ==
  IF recv # nullptr /\ decode(recv[1])
  THEN <<Decoded(recv[1])>>
  ELSE recv

\* decode-and-report of handleLearningStatus: the receiver afterwards
StatusPoll(recv) ==
  IF recv # nullptr /\ decode(recv[1])
  THEN <<resume(Decoded(recv[1]))>>
  ELSE recv

\* the received_code handleLearningStatus reports, <<>> when none
StatusReport(recv) ==
  IF recv # nullptr /\ decode(recv[1]) THEN recv[1].raw ELSE <<>>

handleLearningStatus ==
  /\ pc = "client" /\ serverUp
  /\ Respond([HttpOk("learningStatus") EXCEPT
                !.active = (activeReceiverPort >= 0),
                !.port = activeReceiverPort,
                !.received = StatusReport(irReceiver)])
  /\ irReceiver' = StatusPoll(irReceiver)
  /\ irOut' = <<>>
  /\ UNCHANGED <<variant, serverUp, serialVars, uartTx, ports, irSenders, senderObjs, recvObjs,
                 activeReceiverPort, boardId, boardName, adopted, prefs, logOut>>

----------------------------------------------------------------------------
(* Serial bridge.  Bytes are their values (65 is 'A'); a String is a        *)
(* sequence of bytes.                                                       *)

\* bytes pending in UART1's receive buffer that the model tracks
MaxRx == 2
\* bytes the far end sends while one serialSend is waiting
MaxArrivals == 2

\* pins and baud rates a config request may give; -1 is an absent pin field
ReqPins == {-1, 16}
ReqBauds == {9600, 115200}
\* "data" of a send request: absent, "AT", "41"
ReqData == {<<>>, <<65, 84>>, <<52, 49>>}
ReqFormats == {"text", "hex"}
ReqLineEndings == {"none", "cr", "lf", "crlf", "!"}
\* "timeout" of a send request, in ms
ReqTimeouts == {0, 30}
\* bytes the far end may send: 'A' and '\n'
DevBytes == {65, 10}
\* when they may arrive, in ms after the send
ArrivalTimes == {0, 5, 40, 70}

\* the far end during one call: up to MaxArrivals bytes, in order of arrival
Schedules ==
  UNION {{a \in [1..n -> [at : ArrivalTimes, byte : DevBytes]] :
            \A i \in 1..(n-1) : a[i].at <= a[i+1].at} : n \in 0..MaxArrivals}

\* a loopback device during one call: it sends back the bytes written, in
\* order, each at one of the arrival times
EchoSchedules(wire) ==
  {[i \in 1..Len(wire) |-> [at |-> ts[i], byte |-> wire[i]]] :
     ts \in {ts \in [1..Len(wire) -> ArrivalTimes] :
               \A i \in 1..(Len(wire) - 1) : ts[i] <= ts[i+1]}}

\* '\n', '\r' and '!'
Terminators == {10, 13, 33}

\* isspace(): what String::trim() strips
Whitespace == {9, 10, 11, 12, 13, 32}

RECURSIVE TrimLeft(_)
TrimLeft(str) ==
  IF str # <<>> /\ Head(str) \in Whitespace THEN TrimLeft(Tail(str)) ELSE str

RECURSIVE TrimRight(_)
TrimRight(str) ==
  IF str # <<>> /\ str[Len(str)] \in Whitespace
  THEN TrimRight(SubSeq(str, 1, Len(str) - 1))
  ELSE str

\* String::trim()
Trim(str) == TrimRight(TrimLeft(str))

\* the value of a hex digit, -1 for any other character
HexDigit(c) ==
  IF c \in 48..57 THEN c - 48
  ELSE IF c \in 65..70 THEN c - 55
  ELSE IF c \in 97..102 THEN c - 87
  ELSE -1

\* (uint8_t)strtol(byteStr, nullptr, 16) of a two-character substring of hex
\* digits or other letters: parsing stops at the first character that is no digit
HexByte(c1, c2) ==
  IF HexDigit(c1) < 0 THEN 0
  ELSE IF HexDigit(c2) < 0 THEN HexDigit(c1)
  ELSE 16 * HexDigit(c1) + HexDigit(c2)

\* the bytes the hex branch writes: one per full pair of characters
HexPayload(data) ==
  [k \in 1..(Len(data) \div 2) |-> HexByte(data[2*k - 1], data[2*k])]

\* "Add line ending"
LineEnding(lineEnding) ==
  IF lineEnding = "cr" THEN <<13>>
  ELSE IF lineEnding = "lf" THEN <<10>>
  ELSE IF lineEnding = "crlf" THEN <<13, 10>>
  ELSE IF lineEnding = "!" THEN <<33>>
  ELSE <<>>

\* everything handleSerialSend writes to UART1
WireBytes(data, format, lineEnding) ==
  (IF format = "hex" THEN HexPayload(data) ELSE data) \o LineEnding(lineEnding)

\* SerialBridge.available() at time t: the leading arrivals that are due
RECURSIVE Avail(_, _)
Avail(unread, t) ==
  IF unread # <<>> /\ unread[1].at <= t THEN 1 + Avail(Tail(unread), t) ELSE 0

BytesOf(arrivals) == [i \in 1..Len(arrivals) |-> arrivals[i].byte]

\* index of the first terminator byte in a string, 0 when it has none
FirstTerminator(str) ==
  IF \E i \in 1..Len(str) : str[i] \in Terminators
  THEN CHOOSE i \in 1..Len(str) :
         /\ str[i] \in Terminators
         /\ \A k \in 1..(i-1) : str[k] \notin Terminators
  ELSE 0

\* a wait that polls once and returns whatever is there
WaitLoop_OnePoll(t, unread, timeout) ==
  LET k == Avail(unread, t)
  IN  [response |-> BytesOf(SubSeq(unread, 1, k)),
       elapsed  |-> t,
       unread   |-> SubSeq(unread, k + 1, Len(unread))]

\* a wait whose grace window after a terminator is 500 ms
RECURSIVE WaitLoop_LongGrace(_, _, _)
WaitLoop_LongGrace(t, unread, timeout) ==
  IF t >= timeout
  THEN [response |-> <<>>, elapsed |-> t, unread |-> unread]
  ELSE LET k == Avail(unread, t)
       IN  IF k = 0 THEN WaitLoop_LongGrace(t + 10, unread, timeout)
           ELSE IF FirstTerminator(BytesOf(SubSeq(unread, 1, k))) = 0
           THEN [response |-> BytesOf(SubSeq(unread, 1, k)),
                 elapsed  |-> t,
                 unread   |-> SubSeq(unread, k + 1, Len(unread))]
           ELSE LET k2 == Avail(unread, t + 500)
                IN  [response |-> BytesOf(SubSeq(unread, 1, k2)),
                     elapsed  |-> t + 500,
                     unread   |-> SubSeq(unread, k2 + 1, Len(unread))]

\* the wait loop of handleSerialSend from time t (ms since start) with the
\* response still empty: poll, read what is available, on a terminator
\* delay(50) and read again, leave as soon as anything was read, else delay(10)
RECURSIVE WaitLoop(_, _, _)
WaitLoop(t, unread, timeout) ==
  IF t >= timeout
  THEN [response |-> <<>>, elapsed |-> t, unread |-> unread]
  ELSE LET k == Avail(unread, t)
       IN  IF k = 0 THEN WaitLoop(t + 10, unread, timeout)
           ELSE IF FirstTerminator(BytesOf(SubSeq(unread, 1, k))) = 0
           THEN [response |-> BytesOf(SubSeq(unread, 1, k)),
                 elapsed  |-> t,
                 unread   |-> SubSeq(unread, k + 1, Len(unread))]
           ELSE LET k2 == Avail(unread, t + 50)
                IN  [response |-> BytesOf(SubSeq(unread, 1, k2)),
                     elapsed  |-> t + 50,
                     unread   |-> SubSeq(unread, k2 + 1, Len(unread))]

\* an initSerialBridge that begins the new channel without ending the open one
initSerialBridge_NoEnd(b, rxPin, txPin, baud) ==
  [b EXCEPT !.rxPin = rxPin, !.txPin = txPin, !.baud = baud,
            !.open = @ + 1, !.rx = <<>>,
            !.enabled = TRUE, !.buffer = <<>>]

\* initSerialBridge(): end the open channel, begin the new one, clear the buffer
initSerialBridge(b, rxPin, txPin, baud) ==
  LET ended == IF b.enabled THEN [b EXCEPT !.open = @ - 1] ELSE b
  IN  [ended EXCEPT !.rxPin = rxPin, !.txPin = txPin, !.baud = baud,
                    !.open = @ + 1, !.rx = <<>>,
                    !.enabled = TRUE, !.buffer = <<>>]

\* a pin check that looks at rx_pin only
PinsMissing_RxOnly(rxPin, txPin) == rxPin < 0

\* "rx_pin and tx_pin required": an absent field reads as -1
PinsMissing(rxPin, txPin) == rxPin < 0 \/ txPin < 0

handleSerialConfig(body, rxPin, txPin, baud) ==
  /\ pc = "client" /\ serverUp
  /\ irOut' = <<>>
  /\ UNCHANGED <<variant, serverUp, ramVars, prefs, logOut, uartTx>>
  /\ IF body = "none" THEN
       /\ Respond(HttpError("serialConfig", "No body"))
       /\ UNCHANGED serialVars
     ELSE IF body = "invalid" THEN
       /\ Respond(HttpError("serialConfig", "Invalid JSON"))
       /\ UNCHANGED serialVars
     ELSE IF PinsMissing(rxPin, txPin) THEN
       /\ Respond(HttpError("serialConfig", "rx_pin and tx_pin required"))
       /\ UNCHANGED serialVars
     ELSE
       /\ StoreSerial(initSerialBridge(SerialMem, rxPin, txPin, baud))
       /\ Respond([HttpOk("serialConfig") EXCEPT
                     !.serial = <<[rx_pin |-> rxPin, tx_pin |-> txPin,
                                   baud_rate |-> baud]>>])

\* a bridge check that lets every request through
BridgeReady_Always(b) == TRUE

\* the first check of handleSerialSend and handleSerialRead
BridgeReady(b) == b.enabled

\* a send that leaves the pending bytes in the UART
FlushRx_Keep(b) == [b EXCEPT !.buffer = <<>>]

\* "Clear any pending data in the buffer": read UART1 until nothing is
\* available, empty serialBridgeBuffer
FlushRx(b) == [b EXCEPT !.rx = <<>>, !.buffer = <<>>]

\* bytes already in UART1's receive buffer are available at once
Pending(rx) == [i \in 1..Len(rx) |-> [at |-> 0, byte |-> rx[i]]]

\* handleSerialSend: the bridge afterwards, the bytes written and the response.
\* arrivals are the bytes the far end sends after the write, with their times.
SerialSendEffect(b, body, data, format, lineEnding, waitResponse, timeout, arrivals) ==
  LET refuse(msg) == [bridge |-> b, tx |-> <<>>,
                      http |-> HttpError("serialSend", msg)]
  IN  IF ~BridgeReady(b) THEN refuse("Serial bridge not configured")
      ELSE IF body = "none" THEN refuse("No body")
      ELSE IF body = "invalid" THEN refuse("Invalid JSON")
      ELSE IF Len(data) = 0 THEN refuse("data required")
      ELSE
        LET cleared == FlushRx(b)
            inbound == Pending(cleared.rx) \o arrivals
            waited == IF waitResponse /\ timeout > 0
                      THEN WaitLoop(0, inbound, timeout)
                      ELSE [response |-> <<>>, elapsed |-> 0, unread |-> inbound]
        IN  [bridge |-> [cleared EXCEPT !.rx = BytesOf(waited.unread)],
             tx     |-> WireBytes(data, format, lineEnding),
             http   |-> [HttpOk("serialSend") EXCEPT
                           !.text = Trim(waited.response),
                           !.elapsed = waited.elapsed]]

handleSerialSend(body, data, format, lineEnding, waitResponse, timeout, arrivals) ==
  /\ pc = "client" /\ serverUp
  /\ LET e == SerialSendEffect(SerialMem, body, data, format, lineEnding,
                               waitResponse, timeout, arrivals)
     IN  /\ StoreSerial(e.bridge)
         /\ uartTx' = e.tx
         /\ Respond(e.http)
  /\ irOut' = <<>>
  /\ UNCHANGED <<variant, serverUp, ramVars, prefs, logOut>>

\* a read that reports the buffered bytes and leaves them in the UART
SerialReadEffect_Peek(b) ==
  IF ~BridgeReady(b)
  THEN [bridge |-> b,
        http |-> HttpError("serialDrain", "Serial bridge not configured")]
  ELSE [bridge |-> b,
        http |-> [HttpOk("serialDrain") EXCEPT !.text = b.rx]]

\* handleSerialRead: the bridge afterwards and the response
SerialReadEffect(b) ==
  IF ~BridgeReady(b)
  THEN [bridge |-> b,
        http |-> HttpError("serialDrain", "Serial bridge not configured")]
  ELSE [bridge |-> [b EXCEPT !.rx = <<>>],
        http |-> [HttpOk("serialDrain") EXCEPT !.text = b.rx]]

handleSerialRead ==
  /\ pc = "client" /\ serverUp
  /\ StoreSerial(SerialReadEffect(SerialMem).bridge)
  /\ Respond(SerialReadEffect(SerialMem).http)
  /\ irOut' = <<>>
  /\ UNCHANGED <<variant, serverUp, ramVars, prefs, logOut, uartTx>>

handleSerialStatus ==
  /\ pc = "client" /\ serverUp
  /\ Respond([HttpOk("serialStatus") EXCEPT
                !.serial = <<[enabled |-> serialBridgeEnabled,
                              rx_pin |-> serialBridgeRxPin,
                              tx_pin |-> serialBridgeTxPin,
                              baud_rate |-> serialBridgeBaud,
                              available |-> IF serialBridgeEnabled
                                            THEN Len(uartRx) ELSE 0]>>])
  /\ irOut' = <<>>
  /\ UNCHANGED <<variant, serverUp, serialVars, uartTx, ramVars, prefs, logOut>>

\* the far end sends a byte while no send is waiting: UART1 buffers it if begun
DeviceByte(c) ==
  /\ uartOpen > 0
  /\ Len(uartRx) < MaxRx
  /\ uartRx' = Append(uartRx, c)
  /\ UNCHANGED <<variant, serverUp, ramVars, prefs, pc, httpOut, irOut, logOut,
                 serialBridgeEnabled, serialBridgeRxPin, serialBridgeTxPin,
                 serialBridgeBaud, serialBridgeBuffer, uartOpen, uartTx>>

----------------------------------------------------------------------------
(* loop() and the capture interrupt *)

\* server.handleClient() with no request pending, or with no server started
NoRequest ==
  /\ pc = "client"
  /\ pc' = "poll"
  /\ httpOut' = NoHttp
  /\ irOut' = <<>>
  /\ UNCHANGED <<variant, serverUp, serialVars, uartTx, ramVars, prefs, logOut>>

\* a loop check that prints the signal and leaves it in the receiver
LoopPoll_NoResume(recv) ==
  IF recv # nullptr /\ decode(recv[1])
  THEN <<Decoded(recv[1])>>
  ELSE recv

\* "Check for IR signals if receiver is active": the receiver afterwards
LoopPoll(recv) ==
  IF recv # nullptr /\ decode(recv[1])
  THEN <<resume(Decoded(recv[1]))>>
  ELSE recv

\* what that check prints: the decoded signal, <<>> when none
LoopReport(recv) ==
  IF recv # nullptr /\ decode(recv[1]) THEN recv[1].raw ELSE <<>>

loopPoll ==
  /\ pc = "poll"
  /\ logOut' = LoopReport(irReceiver)
  /\ irReceiver' = LoopPoll(irReceiver)
  /\ pc' = "led"
  /\ UNCHANGED <<variant, serverUp, serialVars, uartTx, ports, irSenders, senderObjs, recvObjs,
                 activeReceiverPort, boardId, boardName, adopted, prefs,
                 httpOut, irOut>>

\* updateLED(); delay(1): the iteration ends and its outputs have left the device
updateLED ==
  /\ pc = "led"
  /\ pc' = "client"
  /\ httpOut' = NoHttp
  /\ irOut' = <<>>
  /\ logOut' = <<>>
  /\ uartTx' = <<>>
  /\ UNCHANGED <<variant, serverUp, serialVars, ramVars, prefs>>

\* the receive interrupt and timer complete the capture of a signal of value v
\* arriving on gpio g: only an enabled receiver on g that is idle records it
Capture(g, v) ==
  /\ irReceiver # nullptr
  /\ irReceiver[1].enabled
  /\ irReceiver[1].gpio = g
  /\ irReceiver[1].rcvstate = "idle"
  /\ irReceiver' = <<[irReceiver[1] EXCEPT !.rcvstate = "stop",
                                           !.raw = <<[gpio |-> g, value |-> v]>>]>>
  /\ UNCHANGED <<variant, serverUp, serialVars, uartTx, ports, irSenders, senderObjs, recvObjs,
                 activeReceiverPort, boardId, boardName, adopted, prefs, pc,
                 httpOut, irOut, logOut>>

BodyKinds == {"json", "none", "invalid"}
\* the input-only pins of the ESP32, which a request may try to make an output
InputOnlySet == {34, 35, 36, 39}

Next ==
  \/ Restart
  \/ NoRequest
  \/ handlePorts
  \/ \E b \in BodyKinds, g \in ReqGpios, m \in ReqModes, n \in ReqNames :
       handleConfigurePort(b, g, m, n)
  \/ \E g \in InputOnlySet, n \in ReqNames :
       handleConfigurePort("json", g, "ir_output", n)
  \/ \E hb \in BOOLEAN, g \in ReqGpios, f \in ReqProtocolFields, c \in CodeValues :
       handleSendIR(hb, g, ProtocolField(f), c)
  \/ \E hb \in BOOLEAN, g \in ReqGpios : handleLearningStart(hb, g)
  \/ handleLearningStop
  \/ handleLearningStatus
  \/ loopPoll
  \/ updateLED
  \/ \E g \in ReqGpios, v \in SigValues : Capture(g, v)

Spec == Init /\ [][Next]_vars

\* the port table, the board identity and the diagnostics under the same
\* loop: configuration, adoption, test pulses, learning start and stop
BoardNext ==
  \/ Restart
  \/ NoRequest
  \/ handlePorts
  \/ \E b \in BodyKinds, g \in ReqGpios, m \in ReqModes, n \in ReqNames :
       handleConfigurePort(b, g, m, n)
  \/ \E hb \in BOOLEAN, id \in ReqBoardIds, n \in ReqBoardNames :
       handleAdopt(hb, id, n)
  \/ \E hb \in BOOLEAN, g \in ReqGpios, d \in ReqDurations :
       handleTestOutput(hb, g, d)
  \/ \E hb \in BOOLEAN, g \in ReqGpios : handleLearningStart(hb, g)
  \/ handleLearningStop
  \/ loopPoll
  \/ updateLED

BoardSpec == Init /\ [][BoardNext]_vars

\* the two blocking handlers next to an active receiver: a learning session
\* with signals arriving at any time, waiting serial sends and test pulses
LoopNext ==
  \/ Restart
  \/ NoRequest
  \/ \E g \in ReqGpios : handleLearningStart(TRUE, g)
  \/ \E g \in ReqGpios, v \in SigValues : Capture(g, v)
  \/ \E bd \in ReqBauds : handleSerialConfig("json", 16, 16, bd)
  \/ \E d \in ReqData \ {<<>>}, a \in Schedules :
       handleSerialSend("json", d, "text", "crlf", TRUE, 30, a)
  \/ \E g \in ReqGpios, d \in ReqDurations : handleTestOutput(TRUE, g, d)
  \/ loopPoll
  \/ updateLED

LoopSpec == Init /\ [][LoopNext]_vars

\* test pulses on a board whose ports, receiver and serial bridge are in use
DiagNext ==
  \/ Restart
  \/ NoRequest
  \/ \E g \in ReqGpios, m \in ReqModes, n \in ReqNames :
       handleConfigurePort("json", g, m, n)
  \/ \E g \in ReqGpios : handleLearningStart(TRUE, g)
  \/ \E bd \in ReqBauds : handleSerialConfig("json", 16, 16, bd)
  \/ \E hb \in BOOLEAN, g \in ReqGpios, d \in ReqDurations :
       handleTestOutput(hb, g, d)
  \/ loopPoll
  \/ updateLED

DiagSpec == Init /\ [][DiagNext]_vars

\* the serial bridge under the same loop: its handlers, the far end, restarts
SerialNext ==
  \/ Restart
  \/ NoRequest
  \/ \E b \in BodyKinds, rx \in ReqPins, tx \in ReqPins, bd \in ReqBauds :
       handleSerialConfig(b, rx, tx, bd)
  \/ \E b \in BodyKinds \ {"json"} :
       handleSerialSend(b, <<>>, "text", "none", TRUE, 1000, <<>>)
  \/ \E d \in ReqData, f \in ReqFormats, le \in ReqLineEndings,
        w \in BOOLEAN, t \in ReqTimeouts :
       /\ ~(w /\ t > 0)
       /\ handleSerialSend("json", d, f, le, w, t, <<>>)
  \/ \E d \in ReqData, f \in ReqFormats, le \in ReqLineEndings,
        t \in ReqTimeouts, a \in Schedules :
       /\ t > 0
       /\ handleSerialSend("json", d, f, le, TRUE, t, a)
  \/ \E d \in ReqData \ {<<>>}, t \in ReqTimeouts \ {0} :
       \E a \in EchoSchedules(WireBytes(d, "text", "crlf")) :
         handleSerialSend("json", d, "text", "crlf", TRUE, t, a)
  \/ handleSerialRead
  \/ handleSerialStatus
  \/ \E c \in DevBytes : DeviceByte(c)
  \/ loopPoll
  \/ updateLED

SerialSpec == Init /\ [][SerialNext]_vars

----------------------------------------------------------------------------
(* Properties *)

\* C1: at most one IR receiver object is live in every reachable state, and
\* after a successful start of the receiver on gpio g (learning start, or a
\* port configured to ir_input) the one live receiver is bound to g and g is
\* the active receiver.
C1_SingleReceiver ==
  /\ recvObjs <= 1
  /\ (irReceiver = nullptr) <=> (recvObjs = 0)
  /\ (/\ httpOut.code = 200
      /\ \/ httpOut.op = "learningStart"
         \/ httpOut.op = "configurePort" /\ httpOut.mode = "ir_input")
     => /\ recvObjs = 1
        /\ irReceiver # nullptr
        /\ irReceiver[1].gpio = httpOut.port
        /\ irReceiver[1].enabled
        /\ activeReceiverPort = httpOut.port

\* a receiver was started by learning on gpio 4 while port 34 holds ir_input
C1_Witness ==
  /\ httpOut.op = "learningStart" /\ httpOut.code = 200 /\ httpOut.port = 4
  /\ variant = "ethernet"
  /\ ports[FindPort(ports, 34)].mode = "ir_input"
  /\ recvObjs = 1
  /\ activeReceiverPort = 4

\* C2: configurePort(g, ir_output, label) on an input-only pin g answers with
\* the "GPIO is input-only" error and changes neither RAM (port table, sender
\* and receiver bindings) nor the persisted store.
C2_InputOnlyRejected ==
  [][(pc = "client" /\ httpOut'.op = "configurePort")
     => \A g \in InputOnlySet, n \in ReqNames :
          handleConfigurePort("json", g, "ir_output", n)
          => /\ httpOut' = HttpError("configurePort", "GPIO is input-only")
             /\ UNCHANGED <<ramVars, prefs>>]_vars

\* the request was refused for pin 34 while that port holds a role and a label
C2_Witness ==
  /\ httpOut = HttpError("configurePort", "GPIO is input-only")
  /\ ports[FindPort(ports, 34)].mode = "ir_input"
  /\ ports[FindPort(ports, 34)].name = "TV"
  /\ ports[FindPort(ports, 39)].mode = "disabled"

C4_NoStaleSignal ==
  /\ httpOut.received # <<>>
     => /\ irReceiver # nullptr
        /\ httpOut.received[1].gpio = irReceiver[1].gpio
        /\ recvObjs = 1
  /\ logOut # <<>>
     => /\ irReceiver # nullptr
        /\ logOut[1].gpio = irReceiver[1].gpio
        /\ recvObjs = 1

\* learningStatus reports a signal captured on gpio 4 after the receiver moved
\* there from port 34 (which was bound when it was given the ir_input role)
C4_Witness ==
  /\ httpOut.op = "learningStatus"
  /\ httpOut.received # <<>>
  /\ httpOut.received[1].gpio = 4
  /\ variant = "ethernet"
  /\ ports[FindPort(ports, 34)].mode = "ir_input"
  /\ ports[FindPort(ports, 4)].mode # "ir_input"

\* C5: configurePort on a gpio that no port of the table has answers with the
\* "Invalid GPIO" error whatever the role (ir_output included), and changes
\* neither RAM nor the persisted store.
C5_UnknownPortRejected ==
  [][(pc = "client" /\ httpOut'.op = "configurePort")
     => \A g \in ReqGpios, m \in ReqModes, n \in ReqNames :
          (/\ \A i \in 1..Len(ports) : ports[i].gpio # g
           /\ handleConfigurePort("json", g, m, n))
          => /\ httpOut' = HttpError("configurePort", "Invalid GPIO")
             /\ UNCHANGED <<ramVars, prefs>>]_vars

\* the request was refused while the table holds configured ports
C5_Witness ==
  /\ httpOut = HttpError("configurePort", "Invalid GPIO")
  /\ ports[FindPort(ports, 4)].mode = "ir_output"
  /\ \A i \in 1..Len(ports) : ports[i].gpio # 99

\* some port has this gpio, the ir_output role and a sender bound
BoundForOutput(g) ==
  \E i \in 1..Len(ports) :
    ports[i].gpio = g /\ ports[i].mode = "ir_output" /\ irSenders[i] # nullptr

\* C6: sendIr on a gpio with no ir_output port, or whose port has no sender,
\* answers with the "Invalid output or not configured" error, transmits
\* nothing and changes no state; otherwise it makes exactly one encoder call,
\* on that gpio, and answers success.
C6_SendNeedsBoundOutput ==
  [][(pc = "client" /\ httpOut'.op = "sendIr")
     => \A g \in ReqGpios, p \in ReqProtocols, c \in CodeValues :
          handleSendIR(TRUE, g, p, c)
          => /\ UNCHANGED <<ramVars, prefs>>
             /\ IF BoundForOutput(g)
                THEN /\ httpOut' = HttpOk("sendIr")
                     /\ Len(irOut') = 1
                     /\ irOut'[1].gpio = g
                ELSE /\ httpOut' = HttpError("sendIr", "Invalid output or not configured")
                     /\ irOut' = <<>>]_vars

\* a send was refused on gpio 4, whose sender is still allocated although the
\* port no longer has the ir_output role
C6_Witness ==
  /\ httpOut = HttpError("sendIr", "Invalid output or not configured")
  /\ irOut = <<>>
  /\ ports[FindPort(ports, 4)].mode = "disabled"
  /\ irSenders[FindPort(ports, 4)] # nullptr

\* C7 (as claimed): after stopLearning no receiver binding exists and the
\* active receiver is none.
C7_StopTearsDown ==
  httpOut.op = "learningStop"
  => /\ irReceiver = nullptr
     /\ recvObjs = 0
     /\ activeReceiverPort = -1

\* C8: at every loop-iteration and handler boundary the receiver holds no
\* decode that was consumed and not resumed; a poll that reported a signal
\* left the receiver re-armed.
C8_DecodeThenResume ==
  irReceiver # nullptr => ~irReceiver[1].decoded

\* both pollers consumed a signal in one iteration and the receiver is idle again
C8_Witness ==
  /\ pc = "led"
  /\ httpOut.op = "learningStatus" /\ httpOut.received # <<>>
  /\ logOut # <<>>
  /\ irReceiver # nullptr
  /\ irReceiver[1].rcvstate = "idle"
  /\ irReceiver[1].enabled

\* C9: every port index has at most one live sender object, the one
\* irSenders points to, and it is bound to the port's gpio.
C9_OneSenderPerPort ==
  \A i \in 1..Len(irSenders) :
    /\ senderObjs[i] <= 1
    /\ (irSenders[i] = nullptr) <=> (senderObjs[i] = 0)
    /\ irSenders[i] # nullptr
       => i <= Len(ports) /\ irSenders[i][1].gpio = ports[i].gpio

\* port 4 was configured to ir_output with a label and holds exactly one
\* sender, bound to gpio 4
C9_Witness ==
  /\ httpOut.op = "configurePort" /\ httpOut.code = 200
  /\ httpOut.port = 4 /\ httpOut.mode = "ir_output" /\ httpOut.name = "TV"
  /\ senderObjs[FindPort(ports, 4)] = 1
  /\ irSenders[FindPort(ports, 4)] = <<NewIRsend(4)>>

\* C10: while the serial bridge has not been configured since boot (the flag
\* is clear, UART1 was never begun), every serialSend and every serialDrain
\* request, whatever its body, is answered 400 "Serial bridge not configured",
\* writes nothing to UART1 and changes no serial bridge state.
C10_UnconfiguredRefused ==
  [][(/\ pc = "client"
      /\ ~serialBridgeEnabled \/ uartOpen = 0
      /\ httpOut'.op \in {"serialSend", "serialDrain"})
     => /\ httpOut' = HttpError(httpOut'.op, "Serial bridge not configured")
        /\ httpOut'.code = 400
        /\ uartTx' = <<>>
        /\ UNCHANGED serialVars]_vars

\* a serialSend was just refused on a bridge that is still unconfigured
C10_Witness ==
  /\ pc = "poll"
  /\ httpOut = HttpError("serialSend", "Serial bridge not configured")
  /\ ~serialBridgeEnabled
  /\ uartOpen = 0
  /\ uartTx = <<>>

\* C11: a serialConfig request whose rx_pin or tx_pin is negative or absent
\* (read as -1) is answered 400 "rx_pin and tx_pin required" and leaves the
\* enabled flag, the pins, the baud rate, the buffer and the open UART channel
\* exactly as they were, also when a channel is already configured.
C11_InvalidPinsRefused ==
  [][(pc = "client" /\ httpOut'.op = "serialConfig")
     => \A rx \in ReqPins, tx \in ReqPins, bd \in ReqBauds :
          ((rx < 0 \/ tx < 0) /\ handleSerialConfig("json", rx, tx, bd))
          => /\ httpOut' = HttpError("serialConfig", "rx_pin and tx_pin required")
             /\ httpOut'.code = 400
             /\ UNCHANGED serialVars
             /\ uartTx' = <<>>]_vars

\* a request without pins was refused while a 9600 baud channel stays open
C11_Witness ==
  /\ pc = "poll"
  /\ httpOut = HttpError("serialConfig", "rx_pin and tx_pin required")
  /\ serialBridgeEnabled
  /\ serialBridgeRxPin = 16 /\ serialBridgeTxPin = 16
  /\ serialBridgeBaud = 9600
  /\ uartOpen = 1

\* C12: UART1 never has more than one channel open, and it has one exactly
\* when the bridge is enabled.  A serialConfig answered 200 leaves one open
\* channel (the previous one was ended first), an empty in-memory buffer and
\* the bridge enabled with the rx pin, tx pin and baud rate of the request.
\* No handler and no loop step clears the enabled flag: within one boot an
\* enabled bridge stays enabled (the flag lives in RAM and every boot starts
\* with it clear).
C12_OneChannel ==
  /\ [](/\ uartOpen <= 1
        /\ serialBridgeEnabled <=> (uartOpen = 1))
  /\ [][/\ (pc = "client" /\ httpOut'.op = "serialConfig" /\ httpOut'.code = 200)
           => /\ serialBridgeEnabled'
              /\ uartOpen' = 1
              /\ serialBridgeBuffer' = <<>>
              /\ httpOut'.serial = <<[rx_pin    |-> serialBridgeRxPin',
                                      tx_pin    |-> serialBridgeTxPin',
                                      baud_rate |-> serialBridgeBaud']>>
              /\ serialBridgeRxPin' >= 0 /\ serialBridgeTxPin' >= 0
        /\ (serialBridgeEnabled /\ ~Restart) => serialBridgeEnabled']_vars

\* a serialConfig at 9600 baud on pins 16/16 has just succeeded
C12_Witness ==
  /\ pc = "poll"
  /\ httpOut.op = "serialConfig" /\ httpOut.code = 200
  /\ httpOut.serial = <<[rx_pin |-> 16, tx_pin |-> 16, baud_rate |-> 9600]>>
  /\ serialBridgeEnabled
  /\ serialBridgeBaud = 9600
  /\ uartOpen = 1

\* C13: on a configured bridge, a send that waits with a timeout T > 0 while
\* the far end sends nothing is answered 200 with an empty response, and the
\* handler has spent at least T ms in the wait; this holds whatever was
\* pending in the UART before the send.
C13_SilentTimeout ==
  [][(pc = "client" /\ serialBridgeEnabled /\ httpOut'.op = "serialSend")
     => \A d \in ReqData \ {<<>>}, f \in ReqFormats, le \in ReqLineEndings,
           t \in ReqTimeouts \ {0} :
          handleSerialSend("json", d, f, le, TRUE, t, <<>>)
          => /\ httpOut'.code = 200
             /\ httpOut'.error = ""
             /\ httpOut'.text = <<>>
             /\ httpOut'.elapsed >= t]_vars

\* "AT\r\n" was written, nothing came back and the wait ran its 30 ms
C13_Witness ==
  /\ pc = "poll"
  /\ httpOut.op = "serialSend" /\ httpOut.code = 200
  /\ httpOut.text = <<>>
  /\ httpOut.elapsed = 30
  /\ uartTx = <<65, 84, 13, 10>>
  /\ uartRx = <<>>

\* C14 (as claimed): a waiting send returns before its timeout only after a
\* terminator byte ('\n', '\r' or '!') has arrived and the 50 ms grace window
\* that follows it has passed; a partial response without a terminator does
\* not end the wait early.
C14_WaitsForTerminator ==
  [][(pc = "client" /\ serialBridgeEnabled /\ httpOut'.op = "serialSend")
     => \A d \in ReqData \ {<<>>}, f \in ReqFormats, le \in ReqLineEndings,
           t \in ReqTimeouts \ {0}, a \in Schedules :
          (handleSerialSend("json", d, f, le, TRUE, t, a) /\ httpOut'.elapsed < t)
          => \E i \in 1..Len(a) :
               /\ a[i].byte \in Terminators
               /\ a[i].at + 50 <= httpOut'.elapsed]_vars

\* C15 (as claimed): with a loopback device that echoes the written bytes,
\* a waiting text send with CRLF returns exactly the data, trimmed, for every
\* timing of the echoed bytes in which all of them arrive before the timeout.
C15_EchoRoundTrip ==
  [][(pc = "client" /\ serialBridgeEnabled /\ httpOut'.op = "serialSend")
     => \A d \in ReqData \ {<<>>}, t \in ReqTimeouts \ {0} :
          \A a \in EchoSchedules(WireBytes(d, "text", "crlf")) :
            (/\ \A i \in 1..Len(a) : a[i].at < t
             /\ handleSerialSend("json", d, "text", "crlf", TRUE, t, a))
            => /\ httpOut'.code = 200
               /\ httpOut'.text = Trim(d)]_vars

\* C16: a waiting send always returns, and the wait it spends is bounded by
\* the timeout plus the 50 ms grace window plus one 10 ms poll interval,
\* whatever the far end does: send nothing, send a few bytes at any time, or
\* have a byte ready at every poll (the loopback device).
C16_BoundedWait ==
  [][(pc = "client" /\ serialBridgeEnabled /\ httpOut'.op = "serialSend")
     => \A d \in ReqData \ {<<>>}, f \in ReqFormats, le \in ReqLineEndings :
          (uartTx' = WireBytes(d, f, le))
          => \A t \in ReqTimeouts \ {0},
                a \in Schedules \cup EchoSchedules(WireBytes(d, f, le)) :
            handleSerialSend("json", d, f, le, TRUE, t, a)
            => /\ httpOut'.code = 200
               /\ httpOut'.elapsed >= 0
               /\ httpOut'.elapsed <= t + 50 + 10
               /\ pc' = "poll"]_vars

\* a terminator was read at the 10 ms poll of a 30 ms wait: the handler
\* returned after 60 ms, later than its timeout
C16_Witness ==
  /\ pc = "poll"
  /\ httpOut.op = "serialSend" /\ httpOut.code = 200
  /\ httpOut.elapsed = 60
  /\ uartTx # <<>>

\* C17: a send that starts while bytes are pending in UART1 discards them
\* before it writes: the response is made only of bytes the far end sent
\* after the send began (a leading part of them, trimmed), the bytes left in
\* the UART afterwards are the rest of those, and no pending byte is in either.
C17_PendingDiscarded ==
  [][(pc = "client" /\ serialBridgeEnabled /\ uartRx # <<>>
      /\ httpOut'.op = "serialSend")
     => \A d \in ReqData \ {<<>>}, f \in ReqFormats, le \in ReqLineEndings :
          (uartTx' = WireBytes(d, f, le))
          => \A w \in BOOLEAN, t \in ReqTimeouts,
                a \in Schedules \cup EchoSchedules(WireBytes(d, f, le)) :
               (/\ (w /\ t > 0) \/ a = <<>>
                /\ handleSerialSend("json", d, f, le, w, t, a))
               => \E k \in 0..Len(a) :
                    /\ httpOut'.text = Trim(BytesOf(SubSeq(a, 1, k)))
                    /\ uartRx' = BytesOf(SubSeq(a, k + 1, Len(a)))
                    /\ (~(w /\ t > 0)) => k = 0]_vars

\* a waiting send answered "A", the byte the far end sent after the write;
\* a line feed that came later is what the UART holds now
C17_Witness ==
  /\ pc = "poll"
  /\ httpOut.op = "serialSend" /\ httpOut.code = 200
  /\ httpOut.text = <<65>>
  /\ uartTx # <<>>
  /\ uartRx = <<10>>

\* C18: on a configured bridge serialDrain answers at once with exactly the
\* bytes UART1 holds, in arrival order, and leaves the UART empty and the
\* rest of the bridge untouched; a drain applied right after it returns no
\* data, and serialStatus reports as available the number of bytes the UART
\* holds, which is 0 when it is empty.
C18_DrainConsumes ==
  [][(pc = "client" /\ serialBridgeEnabled)
     => /\ httpOut'.op = "serialDrain"
           => /\ httpOut'.code = 200
              /\ httpOut'.text = uartRx
              /\ httpOut'.elapsed = 0
              /\ uartRx' = <<>>
              /\ SerialReadEffect(SerialMem').http.text = <<>>
              /\ UNCHANGED <<serialBridgeEnabled, serialBridgeRxPin,
                             serialBridgeTxPin, serialBridgeBaud,
                             serialBridgeBuffer, uartOpen>>
              /\ uartTx' = <<>>
        /\ httpOut'.op = "serialStatus"
           => /\ httpOut'.serial[1].available = Len(uartRx)
              /\ (uartRx = <<>>) => httpOut'.serial[1].available = 0
              /\ UNCHANGED serialVars]_vars

\* a drain returned 'A' then '\n', the order they arrived in, and emptied
\* the UART
C18_Witness ==
  /\ pc = "poll"
  /\ httpOut.op = "serialDrain" /\ httpOut.code = 200
  /\ httpOut.text = <<65, 10>>
  /\ uartRx = <<>>
  /\ serialBridgeEnabled

\* C19: on a port bound for output, a sendIr whose protocol field is absent,
\* or holds a name outside nec, samsung, sony, rc5, rc6, lg, panasonic and
\* pioneer, is answered success and makes exactly one call, of the NEC
\* encoder, on that port's sender with the code of the request.
C19_UnknownProtocolIsNec ==
  [][(pc = "client" /\ httpOut'.op = "sendIr")
     => \A g \in ReqGpios, f \in ReqProtocolFields, c \in CodeValues :
          (/\ \/ f = <<>>
              \/ f # <<>> /\ f[1] \notin {"nec", "samsung", "sony", "rc5", "rc6",
                                          "lg", "panasonic", "pioneer"}
           /\ BoundForOutput(g)
           /\ handleSendIR(TRUE, g, ProtocolField(f), c))
          => /\ httpOut' = HttpOk("sendIr")
             /\ httpOut'.code = 200
             /\ irOut' = <<[gpio |-> g,
                            call |-> [fn |-> "sendNEC", data |-> c,
                                      address |-> -1, timing |-> <<>>]]>>]_vars

\* the NEC encoder was called with code 1 on gpio 4 and the send succeeded
C19_Witness ==
  /\ pc = "poll"
  /\ httpOut = HttpOk("sendIr")
  /\ Len(irOut) = 1
  /\ irOut[1].gpio = 4
  /\ irOut[1].call.fn = "sendNEC"
  /\ irOut[1].call.data = 1
  /\ ports[FindPort(ports, 4)].mode = "ir_output"

\* C20: on a port bound for output, sendIr with protocol "pioneer" makes one
\* sendGeneric call on that port's sender with header 8506/4191, bit mark 568
\* for ones and zeros, one space 1542, zero space 487, footer 568 with gap
\* 25181, minimum frame 84906, 32 bits, 40 kHz, MSB first, no repeat, duty 33,
\* and the code of the request as data; the answer is success.
C20_PioneerTuple ==
  [][(pc = "client" /\ httpOut'.op = "sendIr")
     => \A g \in ReqGpios, c \in CodeValues :
          (BoundForOutput(g) /\ handleSendIR(TRUE, g, ProtocolField(<<"pioneer">>), c))
          => /\ httpOut' = HttpOk("sendIr")
             /\ Len(irOut') = 1
             /\ irOut'[1].gpio = g
             /\ irOut'[1].call.fn = "sendGeneric"
             /\ irOut'[1].call.data = c
             /\ irOut'[1].call.timing =
                  [headermark |-> 8506, headerspace |-> 4191,
                   onemark |-> 568, onespace |-> 1542,
                   zeromark |-> 568, zerospace |-> 487,
                   footermark |-> 568, gap |-> 25181,
                   mesgtime |-> 84906, nbits |-> 32, frequency |-> 40,
                   MSBfirst |-> TRUE, repeat |-> 0, dutycycle |-> 33]]_vars

\* a pioneer frame with code 1 went out on gpio 4 through sendGeneric
C20_Witness ==
  /\ pc = "poll"
  /\ httpOut = HttpOk("sendIr")
  /\ Len(irOut) = 1
  /\ irOut[1].gpio = 4
  /\ irOut[1].call.fn = "sendGeneric"
  /\ irOut[1].call.data = 1
  /\ irOut[1].call.timing.frequency = 40

\* C21 (as claimed): a successful test pulse of durationMs holds the pin, and
\* the loop, for durationMs milliseconds within 10%: the 26 us carrier rounds
\* it emits add up to between 0.9 and 1.1 times durationMs * 1000 us.
C21_PulseLastsDuration ==
  [][(pc = "client" /\ httpOut'.op = "testOutput" /\ httpOut'.code = 200)
     => \A g \in ReqGpios, d \in {x \in ReqDurations : x >= 0} :
          handleTestOutput(TRUE, g, d)
          => /\ Len(irOut') = 1
             /\ irOut'[1].gpio = g
             /\ 10 * irOut'[1].call.data * 26 >= 9 * d * 1000
             /\ 10 * irOut'[1].call.data * 26 <= 11 * d * 1000]_vars

\* C22: within a boot the loop goes handleClient, decode poll, LED update and
\* round again.  A response is produced only in the handleClient step, one per
\* iteration; the loop's decode report is produced only in the poll step that
\* follows it.  The step of a waiting serialSend or of a test pulse contains
\* nothing but that handler: the receiver, the port table, the store and the
\* decode log are as before, a pending capture is still pending, and the
\* other handler's state is untouched.
C22_LoopOrder ==
  [][~Restart
     => /\ pc' # pc
           => <<pc, pc'>> \in {<<"client", "poll">>, <<"poll", "led">>,
                               <<"led", "client">>}
        /\ httpOut' # httpOut
           => \/ pc = "client" /\ pc' = "poll"
              \/ pc = "led" /\ pc' = "client" /\ httpOut' = NoHttp
        /\ logOut' # logOut
           => \/ pc = "poll" /\ pc' = "led"
              \/ pc = "led" /\ pc' = "client" /\ logOut' = <<>>
        /\ (pc = "poll" /\ pc' = "led")
           => /\ UNCHANGED <<httpOut, irOut, uartTx, serialVars, ports, prefs>>
              /\ logOut' = IF irReceiver # nullptr /\ irReceiver[1].rcvstate = "stop"
                           THEN irReceiver[1].raw ELSE <<>>
        /\ (pc = "client" /\ httpOut'.op = "serialSend")
           => UNCHANGED <<ramVars, prefs, logOut>> /\ irOut' = <<>>
        /\ (pc = "client" /\ httpOut'.op = "testOutput")
           => UNCHANGED <<ramVars, prefs, logOut, serialVars, uartTx>>]_vars

\* a serialSend has waited its 30 ms while a signal captured before the
\* request is still held by the receiver, to be decoded by the poll that follows
C22_Witness ==
  /\ pc = "poll"
  /\ httpOut.op = "serialSend" /\ httpOut.code = 200
  /\ httpOut.elapsed >= 30
  /\ irReceiver # nullptr
  /\ irReceiver[1].rcvstate = "stop"
  /\ logOut = <<>>

C24_NoOutputOnInputOnly ==
  /\ \A i \in 1..Len(ports) :
       ports[i].gpio \in {34, 35, 36, 39}
       => ports[i].mode # "ir_output" /\ irSenders[i] = nullptr
  /\ \A i \in 1..Len(prefs.portKeys) :
       prefs.portKeys[i].gpio \in {34, 35, 36, 39}
       => prefs.portKeys[i].mode # "ir_output"

\* ir_output was just refused for gpio 34, which holds the ir_input role in
\* the table and in the store
C24_Witness ==
  /\ httpOut = HttpError("configurePort", "GPIO is input-only")
  /\ \E i \in 1..Len(ports) :
       /\ ports[i].gpio = 34 /\ ports[i].mode = "ir_input"
       /\ i <= Len(prefs.portKeys)
       /\ prefs.portKeys[i].gpio = 34 /\ prefs.portKeys[i].mode = "ir_input"

\* C25: the gpios of the port table are pairwise distinct and at most
\* MAX_PORTS in number; no step (configurePort, adopt, test pulse, learning,
\* loop, restart) changes the sequence of gpios; a configurePort step changes
\* at most the role and label of the port it addresses and leaves every
\* other port as it was.
C25_TableShapeFixed ==
  /\ [](/\ Len(ports) <= (IF variant = "ethernet" THEN 16 ELSE 22)
        /\ Len(ports) > 0
        /\ \A i, j \in 1..Len(ports) : ports[i].gpio = ports[j].gpio => i = j)
  /\ [][/\ Len(ports') = Len(ports)
        /\ \A i \in 1..Len(ports) : ports'[i].gpio = ports[i].gpio
        /\ (pc = "client" /\ httpOut'.op = "configurePort" /\ pc' = "poll")
           => \A i \in 1..Len(ports) :
                ports[i].gpio # httpOut'.port => ports'[i] = ports[i]
        /\ (pc = "client" /\ httpOut'.op # "configurePort" /\ pc' = "poll")
           => ports' = ports]_vars

\* gpio 4 was just configured as a labelled ir_output port while gpio 34
\* keeps the ir_input role it was given before
C25_Witness ==
  /\ pc = "poll"
  /\ httpOut.op = "configurePort" /\ httpOut.code = 200
  /\ httpOut.port = 4 /\ httpOut.mode = "ir_output" /\ httpOut.name = "TV"
  /\ \E i \in 1..Len(ports) :
       ports[i].gpio = 34 /\ ports[i].mode = "ir_input" /\ ports[i].name = ""
  /\ adopted

\* C26 (as claimed): in every reachable state the role of every port, in the
\* table and in the persisted store, is one of disabled, ir_output, ir_input.
C26_RolesValid ==
  /\ \A i \in 1..Len(ports) :
       ports[i].mode \in {"disabled", "ir_output", "ir_input"}
  /\ \A i \in 1..Len(prefs.portKeys) :
       prefs.portKeys[i].mode \in {"disabled", "ir_output", "ir_input"}

\* C27: the board id is never empty; while no id is persisted it is the id
\* derived from the chip's MAC, the same on every boot.  An adopt request
\* without a body or with an empty or absent board_id is refused and changes
\* nothing.  A successful adopt sets the id of the request and adopted, and
\* the store holds both before the answer.  adopted, once set, stays set and
\* persisted through every later step, restarts included.
C27_Identity ==
  /\ [](/\ boardId # ""
        /\ (prefs.boardId = <<>>) => boardId = "vda-ir-efusemac" /\ ~adopted
        /\ adopted => prefs.adopted = <<TRUE>> /\ prefs.boardId = <<boardId>>)
  /\ [][/\ adopted => adopted'
        /\ (pc = "client" /\ httpOut'.op = "adopt")
           => \A hb \in BOOLEAN, id \in ReqBoardIds, n \in ReqBoardNames :
                handleAdopt(hb, id, n)
                => IF ~hb \/ id = ""
                   THEN /\ httpOut'.code = 400
                        /\ UNCHANGED <<ramVars, prefs>>
                   ELSE /\ httpOut'.code = 200
                        /\ boardId' = id
                        /\ adopted'
                        /\ prefs'.boardId = <<id>>
                        /\ prefs'.adopted = <<TRUE>>
                        /\ loadConfig(prefs', variant).boardId = id
                        /\ loadConfig(prefs', variant).adopted]_vars

\* on a board adopted as "hub-1", an adopt without board_id was just refused
C27_Witness ==
  /\ pc = "poll"
  /\ httpOut = HttpError("adopt", "board_id required")
  /\ adopted
  /\ boardId = "hub-1"
  /\ prefs.boardId = <<"hub-1">>
  /\ prefs.adopted = <<TRUE>>

\* C28: no gpio is at once the pin of a live IR sender and the pin of the
\* active IR receiver.
C28_PinExclusive ==
  \A i \in 1..Len(ports) :
    irSenders[i] # nullptr
    => ~(irReceiver # nullptr /\ activeReceiverPort = ports[i].gpio)

\* C29: every live sender belongs to a port whose role is ir_output.
C29_SenderOwnedByOutput ==
  \A i \in 1..Len(ports) :
    irSenders[i] # nullptr => ports[i].mode = "ir_output"

\* C30: while HTTP requests are served, every port whose role is ir_output
\* has a sender bound.
C30_OutputsBoundWhileServing ==
  serverUp
  => \A i \in 1..Len(ports) :
       ports[i].mode = "ir_output" => irSenders[i] # nullptr

\* C31: whenever a receiver is active on a gpio, that gpio is the gpio of a
\* port of the table whose role is ir_input.
C31_ActiveReceiverIsInput ==
  activeReceiverPort >= 0
  => \E i \in 1..Len(ports) :
       ports[i].gpio = activeReceiverPort /\ ports[i].mode = "ir_input"

\* a completed capture waits in the receiver
PendingSignal(recv) == recv # nullptr /\ recv[1].rcvstate = "stop"

\* C32: a completed capture is consumed once, by the poller that reaches it
\* first.  A learningStatus request reports a signal only when that signal is
\* waiting in the receiver as the request is served, that is, the loop's
\* check has not run since the capture completed; it then reports exactly
\* that signal and re-arms the receiver.  Otherwise the loop's check prints
\* the waiting signal and re-arms the receiver without any HTTP report.
\* After either poller nothing is left waiting, so no later request reports
\* the same capture; and no other step than a poller or a re-creation of the
\* receiver touches a waiting signal.
C32_ConsumedOnce ==
  [][/\ (pc = "client" /\ httpOut'.op = "learningStatus")
        => /\ httpOut'.received
                = (IF PendingSignal(irReceiver) THEN irReceiver[1].raw ELSE <<>>)
           /\ ~PendingSignal(irReceiver')
           /\ logOut' = logOut
     /\ (pc = "poll" /\ pc' = "led")
        => /\ logOut'
                = (IF PendingSignal(irReceiver) THEN irReceiver[1].raw ELSE <<>>)
           /\ ~PendingSignal(irReceiver')
           /\ httpOut' = httpOut
     /\ (/\ PendingSignal(irReceiver)
         /\ ~(pc = "poll" /\ pc' = "led")
         /\ ~(pc = "client" /\ httpOut'.op \in {"learningStatus", "learningStart",
                                                 "configurePort"})
         /\ ~(Restart))
        => /\ PendingSignal(irReceiver')
           /\ irReceiver'[1].raw = irReceiver[1].raw]_vars

\* the request was served before the capture completed and reported nothing;
\* the loop's check of the same iteration then consumed the signal
C32_Witness ==
  /\ pc = "led"
  /\ httpOut.op = "learningStatus" /\ httpOut.code = 200
  /\ httpOut.received = <<>>
  /\ logOut # <<>>
  /\ irReceiver # nullptr
  /\ irReceiver[1].rcvstate = "idle"

\* C33: from stopLearning until the next startLearning or configurePort to
\* ir_input (the active receiver is none), every learningStatus answer has
\* active = false, port = -1 and no received code, and the loop's check
\* consumes no signal.
C33_QuietAfterStop ==
  [][(activeReceiverPort = -1)
     => /\ (pc = "client" /\ httpOut'.op = "learningStatus")
           => /\ ~httpOut'.active
              /\ httpOut'.port = -1
              /\ httpOut'.received = <<>>
        /\ (pc = "poll" /\ pc' = "led")
           => /\ logOut' = <<>>
              /\ irReceiver' = irReceiver]_vars

\* the gpio of the last port in table order whose role is ir_input, -1 when none
LastInputGpio(table) ==
  LET inputs == {i \in 1..Len(table) : table[i].mode = "ir_input"}
  IN  IF inputs = {} THEN -1
      ELSE table[CHOOSE i \in inputs : \A k \in inputs : k <= i].gpio

\* C34: the active receiver is not persisted.  After a restart that reaches
\* initPorts the active receiver is the last port in table order whose role
\* is ir_input, with a fresh receiver bound to it, and none when the table
\* has no such port, whatever was active before; a receiver that
\* startLearning had put on a gpio without the ir_input role is gone.
C34_ReceiverNotPersisted ==
  [][(/\ pc' = "client"
      /\ prefs' = prefs
      /\ Restart
      /\ Mem' = setup(prefs, variant, TRUE).mem)
     => /\ activeReceiverPort' = LastInputGpio(ports')
        /\ irReceiver' = IF LastInputGpio(ports') = -1 THEN nullptr
                         ELSE <<NewIRrecv(LastInputGpio(ports'))>>
        /\ recvObjs' = IF LastInputGpio(ports') = -1 THEN 0 ELSE 1
        /\ (/\ activeReceiverPort >= 0
            /\ \A i \in 1..Len(ports') :
                 ports'[i].gpio = activeReceiverPort => ports'[i].mode # "ir_input")
           => activeReceiverPort' # activeReceiverPort]_vars

\* gpio 4 and gpio 34 both have the ir_input role and the board has booted
\* with gpio 34, the later of the two in the table, as the active receiver
C34_Witness ==
  /\ pc = "client"
  /\ httpOut = NoHttp
  /\ ports[FindPort(ports, 4)].mode = "ir_input"
  /\ ports[FindPort(ports, 34)].mode = "ir_input"
  /\ FindPort(ports, 4) < FindPort(ports, 34)
  /\ activeReceiverPort = 34
  /\ irReceiver = <<NewIRrecv(34)>>
  /\ prefs.portCount # <<>>

=============================================================================
